---- MODULE Spec2Model ----
(***************************************************************************)
(* A model of the CORS reverse proxy: the URL resolver (parseURL), the     *)
(* rate limiter (createRateLimitChecker), the request handler (getHandler) *)
(* and the redirect-following forwarder (proxyRequest, onProxyResponse,    *)
(* handleRedirectStatus).                                                  *)
(*                                                                         *)
(* Strings that the code inspects with regular expressions (request paths, *)
(* Origin headers, Location headers) are sequences of tokens: the symbols  *)
(* "/", "?" and ":", dotted names (a sequence of labels, "example.com" is  *)
(* <<"example","com">>) and decimal numbers.  The regular expressions are  *)
(* evaluated on these sequences.                                           *)
(***************************************************************************)
EXTENDS Integers, Sequences, FiniteSets, TLC

\* ------------------------------------------------------------------------
\* Tokens
\* ------------------------------------------------------------------------
Tok(k, s, n) == [k |-> k, s |-> s, n |-> n]
Sl == Tok("sym", <<"/">>, 0)
Qm == Tok("sym", <<"?">>, 0)
Co == Tok("sym", <<":">>, 0)
Name(labels) == Tok("name", labels, 0)
Num(n) == Tok("num", <<>>, n)

\* Number of decimal digits of a port literal (no leading zeros).
Digits(n) ==
  IF n < 10 THEN 1 ELSE IF n < 100 THEN 2 ELSE IF n < 1000 THEN 3
  ELSE IF n < 10000 THEN 4 ELSE IF n < 100000 THEN 5 ELSE 6

\* Case folding of the labels that occur in the model.
LowerLabel(l) ==
  CASE l = "EXAMPLE" -> "example"
    [] l = "COM" -> "com"
    [] l = "HTTP" -> "http"
    [] OTHER -> l

LowerLabels(ls) == [i \in 1..Len(ls) |-> LowerLabel(ls[i])]

\* /^https?$/i on one token.
IsSchemeName(t) ==
  /\ t.k = "name"
  /\ Len(t.s) = 1
  /\ LowerLabel(t.s[1]) \in {"http", "https"}

\* [^\/?] on one token.
IsRunTok(t) == t # Sl /\ t # Qm

Drop(s, n) == SubSeq(s, n + 1, Len(s))

\* A faulty prefix test that compares the lengths only.
StartsWithLength(s, p) == Len(s) >= Len(p)

StartsWith(s, p) == Len(s) >= Len(p) /\ SubSeq(s, 1, Len(p)) = p

\* Length of the longest prefix of s made of tokens other than "/" and "?".
RECURSIVE RunLen(_)
RunLen(s) ==
  IF s = <<>> \/ ~IsRunTok(s[1]) THEN 0 ELSE 1 + RunLen(Tail(s))

\* ------------------------------------------------------------------------
\* WHATWG URL objects, as far as the code reads them
\* ------------------------------------------------------------------------
NoPort == -1
MaxPort == 65535

MkURL(protocol, hostname, port, path) ==
  [protocol |-> protocol, hostname |-> hostname, port |-> port, path |-> path]

NoURL == MkURL("", <<>>, NoPort, <<>>)

DefaultPort(protocol) == IF protocol = "https" THEN 443 ELSE 80

\* url.href
Href(url) ==
  <<Name(<<url.protocol>>), Co, Sl, Sl, Name(url.hostname)>>
    \o (IF url.port = NoPort THEN <<>> ELSE <<Co, Num(url.port)>>)
    \o url.path

\* new URL(protocol + "//" + rest): the authority is the run of tokens up to
\* the first "/" or "?"; a port that is not a number or exceeds 65535, or an
\* empty host, makes the constructor throw.
NewURL(protocol, rest) ==
  LET n    == RunLen(rest)
      auth == SubSeq(rest, 1, n)
      tail == Drop(rest, n)
      path == IF tail = <<>> \/ tail[1] = Qm THEN <<Sl>> \o tail ELSE tail
      host == LowerLabels(auth[1].s)
      ok(port) == [kind |-> "url",
                   url  |-> MkURL(protocol, host,
                                  IF port = DefaultPort(protocol)
                                    THEN NoPort ELSE port,
                                  path)]
      throw == [kind |-> "throw", url |-> NoURL]
  IN  IF n = 0 \/ auth[1].k # "name" THEN throw
      ELSE IF n = 1 THEN ok(NoPort)
      ELSE IF n = 2 /\ auth[2] = Co THEN ok(NoPort)
      ELSE IF n = 3 /\ auth[2] = Co /\ auth[3].k = "num"
                /\ auth[3].n <= MaxPort THEN ok(auth[3].n)
      ELSE throw

\* ------------------------------------------------------------------------
\* parseURL (utils.ts)
\* ------------------------------------------------------------------------
\* The regular expression of parseURL applied to reqUrl.  groups:
\*   matched  whether the expression matches at all
\*   scheme   match[1], "" when the group did not take part
\*   port     match[4] as a number, -1 when the group did not take part,
\*            -2 when it matched the empty digit string
\*   rest     what follows the optional "scheme://" or "//" prefix
ParseMatch(reqUrl) ==
  LET withScheme == /\ Len(reqUrl) >= 5
                    /\ IsSchemeName(reqUrl[1])
                    /\ reqUrl[2] = Co /\ reqUrl[3] = Sl /\ reqUrl[4] = Sl
                    /\ IsRunTok(reqUrl[5])
      withSlashes == /\ Len(reqUrl) >= 3
                     /\ reqUrl[1] = Sl /\ reqUrl[2] = Sl
                     /\ IsRunTok(reqUrl[3])
      bare == reqUrl # <<>> /\ IsRunTok(reqUrl[1])
      rest == IF withScheme THEN Drop(reqUrl, 4)
              ELSE IF withSlashes THEN Drop(reqUrl, 2) ELSE reqUrl
      n == RunLen(rest)
      port == IF n >= 3 /\ rest[n - 1] = Co /\ rest[n].k = "num"
                   /\ Digits(rest[n].n) <= 5
                THEN rest[n].n
              ELSE IF n >= 2 /\ rest[n] = Co THEN -2
              ELSE -1
  IN  [matched |-> withScheme \/ withSlashes \/ bare,
       scheme  |-> IF withScheme THEN LowerLabel(reqUrl[1].s[1]) ELSE "",
       port    |-> port,
       rest    |-> rest]

\* A faulty parseURL that lets port 443 override an explicit scheme.
parseURLPortWins(reqUrl) ==
  LET m == ParseMatch(reqUrl)
      null == [kind |-> "null", url |-> NoURL]
      byPort == IF m.port = 443 THEN "https" ELSE "http"
  IN  IF reqUrl = <<>> THEN null
      ELSE IF ~m.matched THEN null
      ELSE IF m.scheme = ""
        THEN IF Len(reqUrl) >= 2 /\ IsSchemeName(reqUrl[1]) /\ reqUrl[2] = Co
               THEN null
               ELSE NewURL(byPort, m.rest)
        ELSE NewURL(IF m.port = 443 THEN "https" ELSE m.scheme, m.rest)

parseURL(reqUrl) ==
  LET m == ParseMatch(reqUrl)
      null == [kind |-> "null", url |-> NoURL]
  IN  IF reqUrl = <<>> THEN null
      ELSE IF ~m.matched THEN null
      ELSE IF m.scheme = ""
        THEN IF Len(reqUrl) >= 2 /\ IsSchemeName(reqUrl[1]) /\ reqUrl[2] = Co
               THEN null
               ELSE NewURL(IF m.port = 443 THEN "https" ELSE "http", m.rest)
        ELSE NewURL(m.scheme, m.rest)

\* ------------------------------------------------------------------------
\* Bounds and input sets
\* ------------------------------------------------------------------------
\* Largest configured <max requests per period>.
MaxRate == 2
\* Calls per host and period are counted up to MaxRate + 2 (saturating).
CallCap == MaxRate + 2
\* Timer firings are counted up to MaxPeriods (saturating).
MaxPeriods == 1

ExampleCom == <<"example", "com">>
OtherCom == <<"other", "com">>
SchemePrefix(s) == <<Name(<<s>>), Co, Sl, Sl>>

NoOrigin == <<>>
OriginOther == <<Name(OtherCom)>>
OriginExample == SchemePrefix("http") \o <<Name(ExampleCom)>>
OriginExampleUpper == SchemePrefix("http") \o <<Name(<<"EXAMPLE", "COM">>)>>
Origins == {NoOrigin, OriginOther, OriginExample, OriginExampleUpper}

\* ------------------------------------------------------------------------
\* Rate limiter (createRateLimitChecker)
\* ------------------------------------------------------------------------
\* The configuration string as the constructor reads it:
\*   absent     CORSANYWHERE_RATELIMIT is not set: the checker is null
\*   malformed  the string does not have the expected shape: () => {}
\*   limit      "<max> <period> <unlimited hosts>"; an entry of unlimited is
\*              [regex |-> FALSE, labels] for a bare host name and
\*              [regex |-> TRUE, labels] for /(.*\.)?<labels>/
RateAbsent == [kind |-> "absent", max |-> 0, unlimited |-> <<>>]
RateMalformed == [kind |-> "malformed", max |-> 0, unlimited |-> <<>>]
RateLimit(max, unlimited) ==
  [kind |-> "limit", max |-> max, unlimited |-> unlimited]

Literal(labels) == [regex |-> FALSE, labels |-> labels]
Regex(labels) == [regex |-> TRUE, labels |-> labels]

EmptyMap == [h \in {} |-> 0]

\* origin.replace(/^[\w\-]+:\/\//i, "")
StripScheme(origin) ==
  IF /\ Len(origin) >= 4
     /\ \/ origin[1].k = "name" /\ Len(origin[1].s) = 1
        \/ origin[1].k = "num"
     /\ origin[2] = Co /\ origin[3] = Sl /\ origin[4] = Sl
    THEN Drop(origin, 4)
    ELSE origin

\* One alternative of unlimitedPatternRegex against the whole host,
\* case-insensitively.
EntryMatches(entry, host) ==
  LET want == LowerLabels(entry.labels)
      last == host[Len(host)]
      have == LowerLabels(last.s)
  IN  IF entry.regex
        THEN /\ host # <<>>
             /\ last.k = "name"
             /\ Len(have) >= Len(want)
             /\ SubSeq(have, Len(have) - Len(want) + 1, Len(have)) = want
             /\ (Len(host) > 1 => Len(have) > Len(want))
        ELSE /\ Len(host) = 1
             /\ last.k = "name"
             /\ have = want

\* unlimitedPatternRegex && unlimitedPatternRegex.test(host)
UnlimitedHost(rate, host) ==
  \E i \in 1..Len(rate.unlimited) : EntryMatches(rate.unlimited[i], host)

Count(acc, host) == IF host \in DOMAIN acc THEN acc[host] ELSE 0

Put(f, k, v) == [x \in DOMAIN f \cup {k} |-> IF x = k THEN v ELSE f[x]]

\* A faulty checker that rejects from the max-th call on (>= for >).
checkRateLimitOffByOne(rate, acc, origin) ==
  LET host == StripScheme(origin)
      count == Count(acc, host) + 1
  IN  IF rate.kind # "limit" THEN [message |-> FALSE, acc |-> acc]
      ELSE IF UnlimitedHost(rate, host) THEN [message |-> FALSE, acc |-> acc]
      ELSE IF count >= rate.max THEN [message |-> TRUE, acc |-> acc]
      ELSE [message |-> FALSE, acc |-> Put(acc, host, count)]

\* A faulty checker that tests the unlimited pattern on the origin with its
\* scheme instead of on the bare host.
checkRateLimitWithScheme(rate, acc, origin) ==
  LET host == StripScheme(origin)
      count == Count(acc, host) + 1
  IN  IF rate.kind # "limit" THEN [message |-> FALSE, acc |-> acc]
      ELSE IF UnlimitedHost(rate, origin) THEN [message |-> FALSE, acc |-> acc]
      ELSE IF count > rate.max THEN [message |-> TRUE, acc |-> acc]
      ELSE [message |-> FALSE, acc |-> Put(acc, host, count)]

\* A faulty checker that stores the count of a rejected call too.
checkRateLimitPersist(rate, acc, origin) ==
  LET host == StripScheme(origin)
      count == Count(acc, host) + 1
  IN  IF rate.kind # "limit" THEN [message |-> FALSE, acc |-> acc]
      ELSE IF UnlimitedHost(rate, host) THEN [message |-> FALSE, acc |-> acc]
      ELSE [message |-> count > rate.max, acc |-> Put(acc, host, count)]

\* The checker returned by createRateLimitChecker, applied to origin with
\* the counter mapping acc: message is TRUE for the non-empty rate-limit
\* message, acc is the mapping after the call.
checkRateLimit(rate, acc, origin) ==
  LET host == StripScheme(origin)
      count == Count(acc, host) + 1
  IN  IF rate.kind # "limit" THEN [message |-> FALSE, acc |-> acc]
      ELSE IF UnlimitedHost(rate, host) THEN [message |-> FALSE, acc |-> acc]
      ELSE IF count > rate.max THEN [message |-> TRUE, acc |-> acc]
      ELSE [message |-> FALSE, acc |-> Put(acc, host, count)]

\* ------------------------------------------------------------------------
\* Header maps
\* ------------------------------------------------------------------------
NoHeaders == [h \in {} |-> <<>>]
Truthy(headers, name) == name \in DOMAIN headers /\ headers[name] # <<>>
Delete(headers, name) == [x \in DOMAIN headers \ {name} |-> headers[x]]
Get(headers, name) == IF name \in DOMAIN headers THEN headers[name] ELSE <<>>
Word(w) == <<Name(<<w>>)>>

\* withCORS: the annotated headers and the request with the
\* Access-Control-Request-* headers removed.  The value of
\* access-control-expose-headers is the set of keys that join(",") lists.
withCORS(headers, request, corsMaxAge) ==
  LET h1 == Put(headers, "access-control-allow-origin", Word("*"))
      h2 == IF request.method = "OPTIONS" /\ corsMaxAge # 0
              THEN Put(h1, "access-control-max-age", <<Num(corsMaxAge)>>)
              ELSE h1
      m  == Truthy(request.headers, "access-control-request-method")
      h3 == IF m THEN Put(h2, "access-control-allow-methods",
                          request.headers["access-control-request-method"])
                 ELSE h2
      r3 == IF m THEN Delete(request.headers, "access-control-request-method")
                 ELSE request.headers
      a  == Truthy(r3, "access-control-request-headers")
      h4 == IF a THEN Put(h3, "access-control-allow-headers",
                          r3["access-control-request-headers"])
                 ELSE h3
      r4 == IF a THEN Delete(r3, "access-control-request-headers") ELSE r3
  IN  [headers |-> Put(h4, "access-control-expose-headers", DOMAIN h4),
       request |-> [request EXCEPT !.headers = r4]]

\* ------------------------------------------------------------------------
\* isValidHostName (utils.ts)
\* ------------------------------------------------------------------------
\* TOP_LEVEL_DOMAIN_REGEX (constants.ts): the host name ends in a dot and a
\* registered top-level domain, case-insensitively.
TopLevelDomains == {"com", "net", "org"}

TOP_LEVEL_DOMAIN_REGEX(hostname) ==
  /\ Len(hostname) >= 2
  /\ LowerLabel(hostname[Len(hostname)]) \in TopLevelDomains

\* net.isIPv4 on the labels of the model.
ByteLabels == {"0", "1", "127"}
isIPv4(hostname) ==
  Len(hostname) = 4 /\ \A i \in 1..4 : hostname[i] \in ByteLabels

\* net.isIPv6: no name of the model contains ":".
isIPv6(hostname) == FALSE

\* A faulty validation that accepts every non-empty host name.
isValidHostNameLax(hostname) == hostname # <<>>

isValidHostName(hostname) ==
  IF hostname = <<>> THEN FALSE
  ELSE TOP_LEVEL_DOMAIN_REGEX(hostname) \/ isIPv4(hostname) \/ isIPv6(hostname)

\* ------------------------------------------------------------------------
\* getProxyForUrl (utils.ts)
\* ------------------------------------------------------------------------
\* The environment: NO_PROXY is the list that split(",") yields (<<>> when
\* the variable is unset or empty), the three endpoints are token sequences
\* (<<>> when unset).
MkEnv(noProxy, httpProxy, httpsProxy, allProxy) ==
  [NO_PROXY |-> noProxy, HTTP_PROXY |-> httpProxy,
   HTTPS_PROXY |-> httpsProxy, ALL_PROXY |-> allProxy]

EnvUnset == MkEnv(<<>>, <<>>, <<>>, <<>>)

\* new URL(s) without a base: "http(s)://authority..." is parsed as above;
\* "name:rest" is a URL with the non-special scheme name and no host; a
\* string without a scheme throws.
NewURLNoBase(s) ==
  IF /\ Len(s) >= 4 /\ IsSchemeName(s[1])
     /\ s[2] = Co /\ s[3] = Sl /\ s[4] = Sl
    THEN NewURL(LowerLabel(s[1].s[1]), Drop(s, 4))
  ELSE IF Len(s) >= 2 /\ s[1].k = "name" /\ s[1].s # <<"*">> /\ s[2] = Co
    THEN [kind |-> "url", url |-> MkURL("other", <<>>, NoPort, Drop(s, 2))]
  ELSE [kind |-> "throw", url |-> NoURL]

\* noProxyDomains.every(...) from entry i on: "true", "false" or "throw".
RECURSIVE EveryDomain(_, _, _)
EveryDomain(domains, proxiedUrl, i) ==
  IF i > Len(domains) THEN "true"
  ELSE LET domain == domains[i]
           domainUrl == NewURLNoBase(domain)
           this == IF domain = <<>> THEN "true"
                   ELSE IF domainUrl.kind = "throw" THEN "throw"
                   ELSE IF /\ domainUrl.url.port # NoPort
                           /\ domainUrl.url.port # proxiedUrl.port
                     THEN "true"
                   ELSE IF domainUrl.url.hostname = proxiedUrl.hostname
                     THEN "true" ELSE "false"
       IN  IF this = "true" THEN EveryDomain(domains, proxiedUrl, i + 1)
           ELSE this

shouldProxyUrl(env, url) ==
  IF env.NO_PROXY = <<>> THEN "true"
  ELSE IF env.NO_PROXY = <<Word("*")>> THEN "false"
  ELSE EveryDomain(env.NO_PROXY, url, 1)

\* proxy.indexOf("://") # -1
HasSchemeSeparator(s) ==
  \E i \in 1..Len(s) - 2 : s[i] = Co /\ s[i + 1] = Sl /\ s[i + 2] = Sl

\* The forward proxy for url: <<>> for null (and for an empty endpoint),
\* thrown is TRUE when new URL(domain) threw.
getProxyForUrl(env, url) ==
  LET should == shouldProxyUrl(env, url)
      byScheme == IF url.protocol = "https" THEN env.HTTPS_PROXY
                  ELSE IF url.protocol = "http" THEN env.HTTP_PROXY
                  ELSE <<>>
      proxy == IF env.ALL_PROXY # <<>> THEN env.ALL_PROXY ELSE byScheme
      full == IF proxy # <<>> /\ ~HasSchemeSeparator(proxy)
                THEN <<Name(<<url.protocol>>), Co, Co, Sl, Sl>> \o proxy
                ELSE proxy
  IN  IF url.hostname = <<>> THEN [thrown |-> FALSE, proxy |-> <<>>]
      ELSE IF should = "throw" THEN [thrown |-> TRUE, proxy |-> <<>>]
      ELSE IF should = "true" THEN [thrown |-> FALSE, proxy |-> <<>>]
      ELSE [thrown |-> FALSE, proxy |-> full]

\* ------------------------------------------------------------------------
\* State
\* ------------------------------------------------------------------------
VARIABLES
  cfg,            \* the handler options and the rate-limit configuration
  env,            \* NO_PROXY, HTTP_PROXY, HTTPS_PROXY, ALL_PROXY
  accessedHosts,  \* rate limiter: host -> count in the current period
  periodCalls,    \* history: direct calls of the checker per host and period
  period,         \* history: number of timer firings
  lastCheck,      \* history: the last direct call of the checker, its result
  last,           \* the last inbound request and the handler's answer to it
  crashed,        \* an exception escaped a handler or listener
  reqs,           \* the inbound requests handed to proxyRequest (req, res)
  corsStates,     \* the CorsState object created for each of them
  listeners,      \* the "proxyRes" listeners of the shared proxy, in order
  sent,           \* every outbound attempt passed to proxy.web
  inflight,       \* the attempts the upstream has not answered yet
  lastRes,        \* the last upstream response, after the listeners ran
  lastCall        \* history: the last direct call of parseURL/getProxyForUrl

vars == <<cfg, env, accessedHosts, periodCalls, period, lastCheck, last,
          crashed, reqs, corsStates, listeners, sent, inflight, lastRes,
          lastCall>>

\* ------------------------------------------------------------------------
\* Forwarder: proxyRequest, handleRedirectStatus, onProxyResponse
\* ------------------------------------------------------------------------
\* REDIRECT_STATUSES (constants.ts)
REDIRECT_STATUSES == {301, 302, 303, 307, 308}

MkFw(rq, cs, ls, sn, infl, thrown) ==
  [reqs |-> rq, corsStates |-> cs, listeners |-> ls, sent |-> sn,
   inflight |-> infl, thrown |-> thrown]

\* location.pathname
Pathname(url) ==
  LET q == CHOOSE n \in 0..Len(url.path) :
             /\ \A i \in 1..n : url.path[i] # Qm
             /\ (n < Len(url.path) => url.path[n + 1] = Qm)
  IN  SubSeq(url.path, 1, q)

\* location.host
HostOf(url) ==
  <<Name(url.hostname)>>
    \o (IF url.port = NoPort THEN <<>> ELSE <<Co, Num(url.port)>>)

\* proxyRequest from the registration of the listener on: p is what
\* getProxyForUrl returned for location, through is new URL(proxyUrl).
Web(fw, i, j, location, p, through) ==
  LET request == fw.reqs[i]
      attempt == [req     |-> i,
                  cs      |-> j,
                  target  |-> location,
                  via     |-> p.proxy,
                  method  |-> request.method,
                  url     |-> IF p.proxy # <<>> THEN Href(location)
                              ELSE Pathname(location),
                  headers |-> IF p.proxy # <<>> THEN request.headers
                              ELSE Put(request.headers, "host",
                                       HostOf(location))]
  IN  IF p.thrown \/ (p.proxy # <<>> /\ through.kind = "throw")
        THEN [fw EXCEPT !.thrown = TRUE]
        ELSE [fw EXCEPT !.reqs[i].url = attempt.url,
                        !.listeners = Append(@, j),
                        !.sent = Append(@, attempt),
                        !.inflight = @ \cup {Len(fw.sent) + 1}]

\* proxyRequest once corsState.getProxyForUrl(location.href) has returned p.
Through(fw, i, j, location, p) ==
  Web(fw, i, j, location, p, NewURLNoBase(p.proxy))

\* proxyRequest(request i, response i, proxy, corsState j)
proxyRequest(e, fw, i, j) ==
  Through(fw, i, j, fw.corsStates[j].location,
          getProxyForUrl(e, fw.corsStates[j].location))

\* new URL(locationHeader, base.href)
ResolveLocation(loc, base) ==
  LET ok(u) == [kind |-> "url", url |-> u]
      dirLen == CHOOSE n \in 0..Len(Pathname(base)) :
                  /\ (n > 0 => base.path[n] = Sl)
                  /\ \A i \in n + 1..Len(Pathname(base)) : base.path[i] # Sl
  IN  IF /\ Len(loc) >= 4 /\ IsSchemeName(loc[1])
         /\ loc[2] = Co /\ loc[3] = Sl /\ loc[4] = Sl
        THEN NewURL(LowerLabel(loc[1].s[1]), Drop(loc, 4))
      ELSE IF Len(loc) >= 2 /\ loc[1] = Sl /\ loc[2] = Sl
        THEN NewURL(base.protocol, Drop(loc, 2))
      ELSE IF loc[1] = Sl
        THEN ok([base EXCEPT !.path = loc])
      ELSE IF loc[1] = Qm
        THEN ok([base EXCEPT !.path = Pathname(base) \o loc])
      ELSE ok([base EXCEPT !.path = SubSeq(base.path, 1, dirLen) \o loc])

\* A faulty handleRedirectStatus that follows 307 as well.
FollowTemporary(e, c, fw, pr, i, j, locationHeader, parsedLocation) ==
  LET corsState == fw.corsStates[j]
      count == corsState.redirectCount_ + 1
      counted == [fw EXCEPT !.corsStates[j].redirectCount_ = count]
      followed ==
        [counted EXCEPT
           !.reqs[i].res.redirects =
               Put(@, count, [status |-> pr.statusCode,
                              location |-> locationHeader]),
           !.reqs[i].method = "GET",
           !.reqs[i].headers =
               Delete(Put(@, "content-length", <<Num(0)>>), "content-type"),
           !.corsStates[j].location = parsedLocation.url]
      rewritten == [pr EXCEPT !.headers =
                      Put(@, "location",
                          corsState.proxyBaseUrl \o <<Sl>> \o locationHeader)]
  IN  IF parsedLocation.kind = "throw"
        THEN [fw |-> [fw EXCEPT !.thrown = TRUE], pr |-> pr]
      ELSE IF parsedLocation.kind = "null" THEN [fw |-> fw, pr |-> pr]
      ELSE IF pr.statusCode \in {301, 302, 303, 307}
        THEN IF count <= c.maxRedirects
               THEN [fw |-> proxyRequest(e, followed, i, j), pr |-> pr]
               ELSE [fw |-> counted, pr |-> rewritten]
      ELSE [fw |-> fw, pr |-> rewritten]

\* handleRedirectStatus from "if (parsedLocation)" on: locationHeader is the
\* absolute location and parsedLocation is parseURL(locationHeader).
Follow(e, c, fw, pr, i, j, locationHeader, parsedLocation) ==
  LET corsState == fw.corsStates[j]
      count == corsState.redirectCount_ + 1
      counted == [fw EXCEPT !.corsStates[j].redirectCount_ = count]
      followed ==
        [counted EXCEPT
           !.reqs[i].res.redirects =
               Put(@, count, [status |-> pr.statusCode,
                              location |-> locationHeader]),
           !.reqs[i].method = "GET",
           !.reqs[i].headers =
               Delete(Put(@, "content-length", <<Num(0)>>), "content-type"),
           !.corsStates[j].location = parsedLocation.url]
      rewritten == [pr EXCEPT !.headers =
                      Put(@, "location",
                          corsState.proxyBaseUrl \o <<Sl>> \o locationHeader)]
  IN  IF parsedLocation.kind = "throw"
        THEN [fw |-> [fw EXCEPT !.thrown = TRUE], pr |-> pr]
      ELSE IF parsedLocation.kind = "null" THEN [fw |-> fw, pr |-> pr]
      ELSE IF pr.statusCode \in {301, 302, 303}
        THEN IF count <= c.maxRedirects
               THEN [fw |-> proxyRequest(e, followed, i, j), pr |-> pr]
               ELSE [fw |-> counted, pr |-> rewritten]
      ELSE [fw |-> fw, pr |-> rewritten]

\* handleRedirectStatus once new URL(locationHeader, corsState.location.href)
\* has returned resolved.
Resolved(e, c, fw, pr, i, j, resolved) ==
  IF resolved.kind = "throw"
    THEN [fw |-> [fw EXCEPT !.thrown = TRUE], pr |-> pr]
    ELSE Follow(e, c, fw, pr, i, j, Href(resolved.url),
                parseURL(Href(resolved.url)))

\* handleRedirectStatus for request i, run by the listener of corsState j.
\* pr is proxyRes; the result is the forwarder state and proxyRes.
handleRedirectStatus(e, c, fw, pr, i, j) ==
  IF ~Truthy(pr.headers, "location") THEN [fw |-> fw, pr |-> pr]
  ELSE Resolved(e, c, fw, pr, i, j,
                ResolveLocation(pr.headers["location"],
                                fw.corsStates[j].location))

\* onProxyResponse after the x-request-url header: the redirect statuses go
\* to handleRedirectStatus, cors is what withCORS(proxyRes.headers, req, ...)
\* returns and leaves of the request.
Finalize(e, c, fw, pr, i, j, cors) ==
  IF pr.statusCode \in REDIRECT_STATUSES
    THEN handleRedirectStatus(e, c, fw, pr, i, j)
    ELSE [fw |-> [fw EXCEPT !.reqs[i].headers = cors.request.headers],
          pr |-> [pr EXCEPT !.headers = cors.headers]]

\* onProxyResponse on the state in which x-request-url has been set.
Stamped(e, c, fw, pr, i, j) ==
  Finalize(e, c, fw, pr, i, j,
           withCORS(Put(pr.headers, "x-final-url",
                        Href(fw.corsStates[j].location)),
                    fw.reqs[i], c.corsMaxAge))

\* onProxyResponse for request i, run by the listener of corsState j.
onProxyResponse(e, c, fw, pr, i, j) ==
  Stamped(e, c,
          IF fw.corsStates[j].redirectCount_ = 0
            THEN [fw EXCEPT !.reqs[i].res.headers =
                    Put(@, "x-request-url", Href(fw.corsStates[j].location))]
            ELSE fw,
          pr, i, j)

\* proxy.emit("proxyRes", proxyRes, req i, res i): the listeners ls that are
\* registered when the event is emitted run in order, each on the state r
\* (fw and proxyRes) the previous one left; an exception ends the emit.
RECURSIVE EmitProxyRes(_, _, _, _, _, _)
EmitProxyRes(e, c, r, i, ls, k) ==
  IF k > Len(ls) \/ r.fw.thrown THEN r
  ELSE EmitProxyRes(e, c, onProxyResponse(e, c, r.fw, r.pr, i, ls[k]),
                    i, ls, k + 1)

\* ------------------------------------------------------------------------
\* Request handler (getHandler)
\* ------------------------------------------------------------------------
MkRequest(method, url, headers) ==
  [method |-> method, url |-> url, headers |-> headers]

\* hasRequiredHeaders: requiredHeaderArray is requireHeader ?? [], an array,
\* so !requiredHeaderArray is false and only some(...) decides.
hasRequiredHeaders(requiredHeaderArray, headers) ==
  \E n \in 1..Len(requiredHeaderArray) :
    Truthy(headers, requiredHeaderArray[n])

Includes(list, x) == \E n \in 1..Len(list) : list[n] = x

\* /^\/https?:\/[^/]/i on request.url
MissingSlash(url) ==
  /\ Len(url) >= 5
  /\ url[1] = Sl /\ IsSchemeName(url[2]) /\ url[3] = Co /\ url[4] = Sl
  /\ url[5] # Sl

\* /^\/https?:/ on request.url
ExplicitScheme(url) ==
  /\ Len(url) >= 3
  /\ url[1] = Sl
  /\ url[2] \in {Name(<<"http">>), Name(<<"https">>)}
  /\ url[3] = Co

\* /^\s*https/ on the x-forwarded-proto header
IsRequestedOverHttps(headers) ==
  /\ Truthy(headers, "x-forwarded-proto")
  /\ headers["x-forwarded-proto"][1] = Name(<<"https">>)

RECURSIVE RemoveHeaders(_, _)
RemoveHeaders(headers, names) ==
  IF names = <<>> THEN headers
  ELSE RemoveHeaders(Delete(headers, Head(names)), Tail(names))

SetHeaders(headers, set) ==
  [x \in DOMAIN headers \cup DOMAIN set |->
     IF x \in DOMAIN set THEN set[x] ELSE headers[x]]

\* What the handler decides for one inbound request.  handled is the value
\* a configured handleInitialRequest returns for this request.  kind is
\*   "threw"     an exception escaped the handler
\*   "handled"   handleInitialRequest took the request
\*   "response"  the handler wrote status, message, body and headers
\*   "none"      the handler returned without writing a response
\*   "proxy"     the request is handed to proxyRequest
\* checked tells whether checkRateLimit was called; acc is the counter
\* mapping afterwards.
Decision(kind, status, message, body, headers, request, location, checked, acc, base) ==
  [kind |-> kind, status |-> status, message |-> message, body |-> body,
   headers |-> headers, request |-> request, location |-> location,
   checked |-> checked, acc |-> acc, proxyBaseUrl |-> base]

\* A faulty handler that calls checkRateLimit before the origin lists are
\* consulted, so that a request rejected by them is counted.
AdmitRateFirst(c, acc, corsHeaders, request, parsed, origin, rl, handled) ==
  LET location == parsed.url
      checked == c.rate.kind # "absent"
      reply(status, message, body, headers, chk) ==
        Decision("response", status, message, body, headers, request,
                 location, chk, IF chk THEN rl.acc ELSE acc, <<>>)
      quiet(kind) ==
        Decision(kind, 0, "", "", NoHeaders, request, location, FALSE, acc,
                 <<>>)
      proxyBaseUrl ==
        SchemePrefix(IF IsRequestedOverHttps(request.headers)
                       THEN "https" ELSE "http")
          \o Get(request.headers, "host")
      outbound ==
        [request EXCEPT !.headers =
           SetHeaders(RemoveHeaders(@, c.removeHeaders), c.setHeaders)]
  IN  IF c.handleInitialRequest /\ handled THEN quiet("handled")
      ELSE IF request.method = "OPTIONS"
        THEN reply(200, "", "", corsHeaders, FALSE)
      ELSE IF parsed.kind = "null"
        THEN IF MissingSlash(request.url)
               THEN reply(400, "Missing slash", "two slashes are needed",
                          corsHeaders, FALSE)
               ELSE quiet("none")
      ELSE IF location.port > MaxPort
        THEN reply(400, "Invalid port", "Port number too large",
                   corsHeaders, FALSE)
      ELSE IF ~ExplicitScheme(request.url)
                /\ ~isValidHostName(location.hostname)
        THEN reply(404, "Invalid host", "Invalid host", corsHeaders, FALSE)
      ELSE IF ~hasRequiredHeaders(c.requireHeader, request.headers)
        THEN reply(400, "Header required", "Missing required request header",
                   corsHeaders, FALSE)
      ELSE IF Includes(c.originBlacklist, origin)
        THEN reply(403, "Forbidden", "blacklisted", corsHeaders, checked)
      ELSE IF c.originWhitelist # <<>> /\ ~Includes(c.originWhitelist, origin)
        THEN reply(403, "Forbidden", "not whitelisted", corsHeaders, checked)
      ELSE IF checked /\ rl.message
        THEN reply(429, "Too Many Requests", "too many requests",
                   corsHeaders, TRUE)
      ELSE IF /\ c.redirectSameOrigin
              /\ origin # <<>>
              /\ Len(Href(location)) > Len(origin)
              /\ Href(location)[Len(origin) + 1] = Sl
              /\ StartsWith(Href(location), origin)
        THEN reply(301, "Please use a direct request", "",
                   Put(Put(Put(corsHeaders, "vary", Word("origin")),
                           "cache-control", Word("private")),
                       "location", Href(location)),
                   checked)
      ELSE Decision("proxy", 0, "", "", NoHeaders, outbound, location,
                    checked, IF checked THEN rl.acc ELSE acc, proxyBaseUrl)

\* The handler from the handleInitialRequest hook on: corsHeaders and
\* request are what withCORS left, parsed is the result of parseURL, origin
\* is request.headers.origin || "" and rl is what checkRateLimit(origin)
\* returns when the handler gets to call it.
Admit(c, acc, corsHeaders, request, parsed, origin, rl, handled) ==
  LET location == parsed.url
      checked == c.rate.kind # "absent"
      reply(status, message, body, headers, chk) ==
        Decision("response", status, message, body, headers, request,
                 location, chk, IF chk THEN rl.acc ELSE acc, <<>>)
      quiet(kind) ==
        Decision(kind, 0, "", "", NoHeaders, request, location, FALSE, acc,
                 <<>>)
      proxyBaseUrl ==
        SchemePrefix(IF IsRequestedOverHttps(request.headers)
                       THEN "https" ELSE "http")
          \o Get(request.headers, "host")
      outbound ==
        [request EXCEPT !.headers =
           SetHeaders(RemoveHeaders(@, c.removeHeaders), c.setHeaders)]
  IN  IF c.handleInitialRequest /\ handled THEN quiet("handled")
      ELSE IF request.method = "OPTIONS"
        THEN reply(200, "", "", corsHeaders, FALSE)
      ELSE IF parsed.kind = "null"
        THEN IF MissingSlash(request.url)
               THEN reply(400, "Missing slash", "two slashes are needed",
                          corsHeaders, FALSE)
               ELSE quiet("none")
      ELSE IF location.port > MaxPort
        THEN reply(400, "Invalid port", "Port number too large",
                   corsHeaders, FALSE)
      ELSE IF ~ExplicitScheme(request.url)
                /\ ~isValidHostName(location.hostname)
        THEN reply(404, "Invalid host", "Invalid host", corsHeaders, FALSE)
      ELSE IF ~hasRequiredHeaders(c.requireHeader, request.headers)
        THEN reply(400, "Header required", "Missing required request header",
                   corsHeaders, FALSE)
      ELSE IF Includes(c.originBlacklist, origin)
        THEN reply(403, "Forbidden", "blacklisted", corsHeaders, FALSE)
      ELSE IF c.originWhitelist # <<>> /\ ~Includes(c.originWhitelist, origin)
        THEN reply(403, "Forbidden", "not whitelisted", corsHeaders, FALSE)
      ELSE IF checked /\ rl.message
        THEN reply(429, "Too Many Requests", "too many requests",
                   corsHeaders, TRUE)
      ELSE IF /\ c.redirectSameOrigin
              /\ origin # <<>>
              /\ Len(Href(location)) > Len(origin)
              /\ Href(location)[Len(origin) + 1] = Sl
              /\ StartsWith(Href(location), origin)
        THEN reply(301, "Please use a direct request", "",
                   Put(Put(Put(corsHeaders, "vary", Word("origin")),
                           "cache-control", Word("private")),
                       "location", Href(location)),
                   checked)
      ELSE Decision("proxy", 0, "", "", NoHeaders, outbound, location,
                    checked, IF checked THEN rl.acc ELSE acc, proxyBaseUrl)

\* The handler after its first line: w is what withCORS({}, request, ...)
\* returned and left of the request, parsed is parseURL(request.url.slice(1)),
\* whose exception escapes the handler.
Locate(c, acc, w, parsed, handled) ==
  IF parsed.kind = "throw"
    THEN Decision("threw", 0, "", "", NoHeaders, w.request, parsed.url, FALSE,
                  acc, <<>>)
    ELSE Admit(c, acc, w.headers, w.request, parsed,
               Get(w.request.headers, "origin"),
               checkRateLimit(c.rate, acc, Get(w.request.headers, "origin")),
               handled)

\* The request listener returned by getHandler, up to the call of
\* proxyRequest.
Annotated(c, acc, w, handled) ==
  Locate(c, acc, w, parseURL(Drop(w.request.url, 1)), handled)

getHandler(c, acc, request0, handled) ==
  Annotated(c, acc, withCORS(NoHeaders, request0, c.corsMaxAge), handled)

\* ------------------------------------------------------------------------
\* Configurations and inputs
\* ------------------------------------------------------------------------
\* Largest configured maxRedirects.
MaxRedirects == 2
\* Number of inbound requests that are handed to the forwarder.
MaxProxied == 2

ProxyHost == <<Name(<<"proxy", "net">>)>>
ProxyBase == SchemePrefix("http") \o ProxyHost

A == Name(<<"a">>)
UrlPlain == <<Sl, Name(ExampleCom), Sl, A>>
UrlPort443 == <<Sl, Name(ExampleCom), Co, Num(443), Sl, A>>
UrlSchemePort443 ==
  <<Sl>> \o SchemePrefix("http") \o <<Name(ExampleCom), Co, Num(443), Sl, A>>
UrlSchemeLocal == <<Sl>> \o SchemePrefix("http") \o <<Name(<<"localhost">>), Sl>>
UrlFavicon == <<Sl, Name(<<"favicon", "ico">>)>>
UrlBigPort == <<Sl, Name(ExampleCom), Co, Num(65536)>>
UrlOneSlash == <<Sl, Name(<<"http">>), Co, Sl, Name(ExampleCom)>>
UrlRoot == <<Sl>>
UrlPort8080 == <<Sl, Name(ExampleCom), Co, Num(8080), Sl, A>>
Urls == {UrlPlain, UrlSchemeLocal, UrlFavicon, UrlBigPort, UrlOneSlash,
         UrlRoot, UrlPort8080}

\* The headers of an inbound request: host and via always, the others when
\* the client sends them.
InboundHeaders(origin, acr, xrw) ==
  LET h0 == [x \in {"host", "via"} |->
               IF x = "host" THEN ProxyHost ELSE Word("1.1")]
      h1 == IF origin = NoOrigin THEN h0 ELSE Put(h0, "origin", origin)
      h2 == IF acr
              THEN Put(Put(h1, "access-control-request-method", Word("PUT")),
                       "access-control-request-headers", Word("x-custom"))
              ELSE h1
  IN  IF xrw THEN Put(h2, "x-requested-with", Word("XMLHttpRequest")) ELSE h2

HeadersNone == InboundHeaders(NoOrigin, FALSE, FALSE)
HeadersXhr == InboundHeaders(NoOrigin, FALSE, TRUE)
HeadersOther == InboundHeaders(OriginOther, TRUE, FALSE)
HeadersExample == InboundHeaders(OriginExample, FALSE, FALSE)
HeaderSets == {HeadersNone, HeadersXhr, HeadersOther, HeadersExample}

\* The inbound requests of the admission specification.
AdmissionRequests ==
  {MkRequest("GET", u, h) : u \in Urls, h \in HeaderSets}
    \cup {MkRequest("OPTIONS", u, h) :
            u \in {UrlPlain, UrlFavicon, UrlBigPort},
            h \in {HeadersNone, HeadersOther}}

\* The inbound requests of the forwarder specification.
ForwardRequests ==
  {MkRequest("GET", UrlPlain, HeadersOther),
   MkRequest("GET", UrlSchemeLocal, HeadersXhr)}

MkCfg(hook, maxRedirects, blacklist, whitelist, rate, sameOrigin, require, maxAge) ==
  [handleInitialRequest |-> hook,
   maxRedirects         |-> maxRedirects,
   originBlacklist      |-> blacklist,
   originWhitelist      |-> whitelist,
   rate                 |-> rate,
   redirectSameOrigin   |-> sameOrigin,
   requireHeader        |-> require,
   removeHeaders        |-> <<"via">>,
   setHeaders           |-> NoHeaders,
   corsMaxAge           |-> maxAge]

DefaultMaxRedirects == 5
ServerRequireHeader == <<"origin", "x-requested-with">>
ServerRate == RateLimit(1, <<Literal(ExampleCom)>>)
StrictRate == RateLimit(1, <<>>)

\* The configurations of the admission specification: every combination of
\* the lists, the rate limit and requireHeader with redirectSameOrigin on as
\* in server.ts, and three more: with a handleInitialRequest hook, with a
\* malformed rate-limit string and corsMaxAge set, the defaults, and with a
\* rate limit that exempts no host.
PolicyConfigs ==
  {MkCfg(FALSE, DefaultMaxRedirects, bl, wl, rate, TRUE, rh, 0) :
     bl \in {<<>>, <<OriginExample>>},
     wl \in {<<>>, <<OriginExample>>},
     rate \in {RateAbsent, ServerRate},
     rh \in {<<>>, ServerRequireHeader}}
  \cup {MkCfg(TRUE, DefaultMaxRedirects, <<>>, <<>>, ServerRate, TRUE,
              ServerRequireHeader, 0),
        MkCfg(FALSE, DefaultMaxRedirects, <<>>, <<>>, RateMalformed, FALSE,
              ServerRequireHeader, 600),
        MkCfg(FALSE, DefaultMaxRedirects, <<>>, <<>>, RateAbsent, FALSE,
              <<>>, 0),
        MkCfg(FALSE, DefaultMaxRedirects, <<>>, <<OriginExample>>, StrictRate,
              TRUE, ServerRequireHeader, 0)}

\* The configurations of the forwarder specification: every maxRedirects.
ForwardConfigs ==
  {MkCfg(FALSE, n, <<>>, <<>>, RateAbsent, FALSE, ServerRequireHeader, 600) :
     n \in 0..MaxRedirects}

\* The configurations of the rate limiter specification.
RateConfigs ==
  {MkCfg(FALSE, DefaultMaxRedirects, <<>>, <<>>, rate, FALSE, <<>>, 0) :
     rate \in {RateMalformed}
       \cup {RateLimit(max, u) :
               max \in 0..MaxRate,
               u \in {<<>>, <<Literal(ExampleCom)>>,
                      <<Literal(OtherCom), Regex(ExampleCom)>>}}}

OriginSubdomain == <<Name(<<"www", "example", "com">>)>>
RateOrigins == (Origins \ {NoOrigin}) \cup {OriginSubdomain}

\* What an upstream answers: a status code and a Location header (<<>> for
\* none).
LocationNext == <<Sl, Name(<<"next">>)>>
LocationBigPort == SchemePrefix("http") \o <<Name(ExampleCom), Co, Num(65536)>>
Answer(statusCode, location) ==
  [statusCode |-> statusCode, location |-> location]
Answers ==
  {Answer(200, <<>>), Answer(301, <<>>), Answer(302, LocationNext),
   Answer(303, LocationNext), Answer(307, LocationNext), Answer(308, <<>>),
   Answer(302, LocationBigPort)}

\* The defaults of getHandler (defaultHandlerOptions).
DefaultConfig ==
  MkCfg(FALSE, DefaultMaxRedirects, <<>>, <<>>, RateAbsent, FALSE, <<>>, 0)

\* The proxy endpoints of the environment: two with a scheme, one without.
ProxyHttp == SchemePrefix("http") \o <<Name(<<"proxy", "net">>), Co, Num(3128)>>
ProxyHttps == SchemePrefix("http") \o <<Name(<<"secure", "net">>), Co, Num(3128)>>
ProxyAll == <<Name(<<"all", "net">>), Co, Num(3128)>>

\* The entries of NO_PROXY: "example.com", "example.com:8080",
\* "http://example.com", "http://example.com:8080", "http://other.com".
EntryHost == <<Name(ExampleCom)>>
EntryHostPort == <<Name(ExampleCom), Co, Num(8080)>>
EntryUrl == SchemePrefix("http") \o EntryHost
EntryUrlPort == SchemePrefix("http") \o EntryHostPort
EntryOtherUrl == SchemePrefix("http") \o <<Name(OtherCom)>>

NoProxyLists ==
  {<<>>, <<Word("*")>>, <<EntryHost>>, <<EntryHostPort>>, <<EntryUrl>>,
   <<EntryUrlPort>>, <<EntryUrl, EntryOtherUrl>>}

\* The environments of the utilities specification.
Envs ==
  {MkEnv(np, h, hs, a) :
     np \in NoProxyLists, h \in {<<>>, ProxyHttp},
     hs \in {<<>>, ProxyHttps}, a \in {<<>>, ProxyAll}}

\* The targets getProxyForUrl is called with; the last has no host.
TargetHttp == MkURL("http", ExampleCom, NoPort, <<Sl, A>>)
TargetHttpPort == MkURL("http", ExampleCom, 8080, <<Sl, A>>)
TargetHttps == MkURL("https", ExampleCom, NoPort, <<Sl, A>>)
TargetOther == MkURL("http", OtherCom, NoPort, <<Sl, A>>)
TargetNoHost == MkURL("other", <<>>, NoPort, <<A>>)
Targets == {TargetHttp, TargetHttpPort, TargetHttps, TargetOther, TargetNoHost}

\* The strings parseURL is called with: the paths of the handler without
\* their first character, and more forms of scheme and port.
UrlSchemePort443Query ==
  UrlSchemePort443 \o <<Qm, Name(<<"b=1">>)>>
UrlUpperSchemePort443 ==
  <<Sl, Name(<<"HTTP">>), Co, Sl, Sl, Name(ExampleCom), Co, Num(443)>>
UrlHttpsPort80 ==
  <<Sl>> \o SchemePrefix("https") \o <<Name(ExampleCom), Co, Num(80), Sl, A>>
UrlHttps == <<Sl>> \o SchemePrefix("https") \o <<Name(ExampleCom), Sl, A>>
UrlSlashesPort443 == <<Sl, Sl, Sl, Name(ExampleCom), Co, Num(443), Sl, A>>
UrlPort443Query == <<Sl, Name(ExampleCom), Co, Num(443), Qm, Name(<<"b=1">>)>>
ReqUrls ==
  {Drop(u, 1) :
     u \in Urls \cup {UrlPort443, UrlSchemePort443, UrlSchemePort443Query,
                      UrlUpperSchemePort443, UrlHttpsPort80, UrlHttps,
                      UrlSlashesPort443, UrlPort443Query}}

\* ------------------------------------------------------------------------
\* Initial state
\* ------------------------------------------------------------------------
NoCheck ==
  [called |-> FALSE, origin |-> <<>>, host |-> <<>>, n |-> 0, period |-> 0,
   message |-> FALSE, kept |-> TRUE]

NoRequest ==
  [kind |-> "init", request |-> MkRequest("", <<>>, NoHeaders), status |-> 0,
   message |-> "", body |-> "", headers |-> NoHeaders, proxied |-> 0]

NoResponse ==
  [req |-> 0, attempt |-> 0, statusCode |-> 0, upstream |-> NoHeaders,
   headers |-> NoHeaders, follows |-> 0]

NoCall ==
  [fn |-> "", reqUrl |-> <<>>, url |-> NoURL,
   parsed |-> [kind |-> "null", url |-> NoURL],
   proxy |-> [thrown |-> FALSE, proxy |-> <<>>]]

InitWith(c, e) ==
  /\ cfg = c
  /\ env = e
  /\ accessedHosts = EmptyMap
  /\ periodCalls = EmptyMap
  /\ period = 0
  /\ lastCheck = NoCheck
  /\ last = NoRequest
  /\ crashed = FALSE
  /\ reqs = <<>>
  /\ corsStates = <<>>
  /\ listeners = <<>>
  /\ sent = <<>>
  /\ inflight = {}
  /\ lastRes = NoResponse
  /\ lastCall = NoCall

InitAdmission == \E c \in PolicyConfigs : InitWith(c, EnvUnset)
InitForwarder == \E c \in ForwardConfigs : InitWith(c, EnvUnset)
InitRateLimiter == \E c \in RateConfigs : InitWith(c, EnvUnset)
InitUtils == \E e \in Envs : InitWith(DefaultConfig, e)

\* ------------------------------------------------------------------------
\* Actions
\* ------------------------------------------------------------------------
Min(a, b) == IF a < b THEN a ELSE b

\* The history of one direct call checkRateLimit(origin): n is the number
\* of calls for the host in this period, this one included, kept tells
\* whether the call left the counter mapping as it was.
Checked(origin, r) ==
  LET host == StripScheme(origin)
      n == Min(Count(periodCalls, host) + 1, CallCap)
  IN  /\ periodCalls' = Put(periodCalls, host, n)
      /\ lastCheck' = [called |-> TRUE, origin |-> origin, host |-> host,
                       n |-> n, period |-> period, message |-> r.message,
                       kept |-> r.acc = accessedHosts]

\* setInterval callback of createRateLimitChecker.
TimerReset ==
  /\ ~crashed
  /\ cfg.rate.kind = "limit"
  /\ accessedHosts' = EmptyMap
  /\ periodCalls' = EmptyMap
  /\ period' = Min(period + 1, MaxPeriods)
  /\ UNCHANGED <<cfg, env, lastCheck, last, crashed, reqs, corsStates,
                 listeners, sent, inflight, lastRes, lastCall>>

\* A direct call of the checker.
CheckRateLimit(origin) ==
  LET r == checkRateLimit(cfg.rate, accessedHosts, origin)
  IN  /\ ~crashed
      /\ cfg.rate.kind # "absent"
      /\ accessedHosts' = r.acc
      /\ Checked(origin, r)
      /\ UNCHANGED <<cfg, env, period, last, crashed, reqs, corsStates,
                     listeners, sent, inflight, lastRes, lastCall>>

\* The object pair (req, res) and the CorsState the handler creates for a
\* proxied request, and its first proxyRequest call.  inbound keeps the
\* headers the request arrived with, answers the status codes its upstreams
\* answered.
HandOff(request, d) ==
  IF d.kind = "proxy"
    THEN proxyRequest(env,
           MkFw(Append(reqs, [method  |-> d.request.method,
                              url     |-> d.request.url,
                              headers |-> d.request.headers,
                              res     |-> [headers |-> NoHeaders,
                                           redirects |-> <<>>],
                              inbound |-> request.headers,
                              answers |-> <<>>]),
                Append(corsStates, [location       |-> d.location,
                                    redirectCount_ |-> 0,
                                    proxyBaseUrl   |-> d.proxyBaseUrl]),
                listeners, sent, inflight, FALSE),
           Len(reqs) + 1, Len(reqs) + 1)
    ELSE MkFw(reqs, corsStates, listeners, sent, inflight, FALSE)

Handled(request, d, fw) ==
  /\ accessedHosts' = d.acc
  /\ last' = [kind |-> d.kind, request |-> request, status |-> d.status,
              message |-> d.message, body |-> d.body, headers |-> d.headers,
              proxied |-> IF d.kind = "proxy" THEN Len(reqs) + 1 ELSE 0]
  /\ crashed' = (d.kind = "threw" \/ fw.thrown)
  /\ reqs' = fw.reqs
  /\ corsStates' = fw.corsStates
  /\ listeners' = fw.listeners
  /\ sent' = fw.sent
  /\ inflight' = fw.inflight
  /\ lastRes' = NoResponse
  /\ UNCHANGED <<cfg, env, period, periodCalls, lastCheck, lastCall>>

\* The request listener of the server: one inbound request, handled to the
\* point where the handler returns.
Request(request, handled) ==
  /\ ~crashed
  /\ handled => cfg.handleInitialRequest
  /\ \E d \in {getHandler(cfg, accessedHosts, request, handled)} :
       \E fw \in {HandOff(request, d)} : Handled(request, d, fw)

Delivered(a, statusCode, upstream, r) ==
  /\ reqs' = r.fw.reqs
  /\ corsStates' = r.fw.corsStates
  /\ listeners' = r.fw.listeners
  /\ sent' = r.fw.sent
  /\ inflight' = r.fw.inflight
  /\ crashed' = r.fw.thrown
  /\ lastRes' = [req |-> sent[a].req, attempt |-> a,
                 statusCode |-> statusCode, upstream |-> upstream,
                 headers |-> r.pr.headers,
                 follows |-> Len(r.fw.sent) - Len(sent)]
  /\ last' = NoRequest
  /\ UNCHANGED <<cfg, env, accessedHosts, periodCalls, period, lastCheck,
                 lastCall>>

UpstreamHeaders(location) ==
  IF location = <<>> THEN NoHeaders ELSE [x \in {"location"} |-> location]

\* The upstream answers attempt a with statusCode and a Location header
\* (<<>> for none): the proxy emits "proxyRes" for the attempt's request.
UpstreamResponse(a, statusCode, location) ==
  /\ ~crashed
  /\ a \in inflight
  /\ \E r \in {EmitProxyRes(env, cfg,
                 [fw |-> MkFw([reqs EXCEPT ![sent[a].req].answers =
                                              Append(@, statusCode)],
                              corsStates, listeners, sent, inflight \ {a},
                              FALSE),
                  pr |-> [statusCode |-> statusCode,
                          headers |-> UpstreamHeaders(location)]],
                 sent[a].req, listeners, 1)} :
       Delivered(a, statusCode, UpstreamHeaders(location), r)

\* A direct call parseURL(reqUrl).
ParseURL(reqUrl) ==
  /\ lastCall' = [NoCall EXCEPT !.fn = "parseURL",
                                !.reqUrl = reqUrl,
                                !.parsed = parseURL(reqUrl)]
  /\ UNCHANGED <<cfg, env, accessedHosts, periodCalls, period, lastCheck,
                 last, crashed, reqs, corsStates, listeners, sent, inflight,
                 lastRes>>

\* A direct call getProxyForUrl(url).
GetProxyForUrl(url) ==
  /\ lastCall' = [NoCall EXCEPT !.fn = "getProxyForUrl",
                                !.url = url,
                                !.proxy = getProxyForUrl(env, url)]
  /\ UNCHANGED <<cfg, env, accessedHosts, periodCalls, period, lastCheck,
                 last, crashed, reqs, corsStates, listeners, sent, inflight,
                 lastRes>>

\* ------------------------------------------------------------------------
\* Specifications
\* ------------------------------------------------------------------------
\* The rate limiter on its own: calls of the checker and the period timer.
NextRateLimiter ==
  \/ \E origin \in RateOrigins : CheckRateLimit(origin)
  \/ TimerReset

SpecRateLimiter == InitRateLimiter /\ [][NextRateLimiter]_vars

\* The admission pipeline: inbound requests and the period timer; at most
\* one request is forwarded, and its upstream answers 200.
NextAdmission ==
  \/ \E request \in AdmissionRequests, handled \in BOOLEAN :
       Request(request, handled) /\ Len(reqs') <= 1
  \/ TimerReset
  \/ \E a \in inflight : UpstreamResponse(a, 200, <<>>)

SpecAdmission == InitAdmission /\ [][NextAdmission]_vars

\* Number of requests the forwarder specification hands to proxyRequest:
\* MaxProxied concurrent requests below the largest maxRedirects, a single
\* request with the largest.
Concurrent(c) == IF c.maxRedirects < MaxRedirects THEN MaxProxied ELSE 1

\* The forwarder: concurrent requests and the answers of their upstreams.
NextForwarder ==
  \/ \E request \in ForwardRequests :
       Request(request, FALSE) /\ Len(reqs') <= Concurrent(cfg)
  \/ \E a \in inflight, answer \in Answers :
       UpstreamResponse(a, answer.statusCode, answer.location)

SpecForwarder == InitForwarder /\ [][NextForwarder]_vars

\* The utilities on their own: calls of parseURL and of getProxyForUrl under
\* every environment.
NextUtils ==
  \/ \E reqUrl \in ReqUrls : ParseURL(reqUrl)
  \/ \E url \in Targets : GetProxyForUrl(url)

SpecUtils == InitUtils /\ [][NextUtils]_vars

\* ------------------------------------------------------------------------
\* Rate limiter properties (SpecRateLimiter)
\* ------------------------------------------------------------------------
\* C1: for a host that does not match the unlimited pattern and any
\* configured maximum, the n-th call of the checker for that host within
\* one period returns the rate-limit message exactly when n > max: the first
\* max calls are permitted and every later one is rejected; the count n
\* restarts with every firing of the period timer and is kept per host, so
\* the calls for other hosts do not matter.
C1_LimitPerPeriod ==
  (/\ lastCheck.called
   /\ cfg.rate.kind = "limit"
   /\ ~UnlimitedHost(cfg.rate, lastCheck.host))
    => (lastCheck.message <=> lastCheck.n > cfg.rate.max)

\* A call after a timer reset that is the (max+1)-th of its period for a
\* limited host and is rejected, while another host has calls in the same
\* period.
C1_Witness ==
  /\ lastCheck.called
  /\ cfg.rate.kind = "limit"
  /\ cfg.rate.max >= 1
  /\ ~UnlimitedHost(cfg.rate, lastCheck.host)
  /\ period >= 1
  /\ lastCheck.period = period
  /\ lastCheck.n = cfg.rate.max + 1
  /\ lastCheck.message
  /\ Count(accessedHosts, lastCheck.host) = cfg.rate.max
  /\ \E h \in DOMAIN periodCalls : h # lastCheck.host

\* C2: a call of the checker for an origin whose bare host matches the
\* unlimited pattern, case-insensitively, is permitted however many calls
\* came before it in the period, and leaves the counter mapping as it was;
\* a call for any other origin is permitted exactly when it is among the
\* first max of its host in the period.
C2_UnlimitedHosts ==
  (lastCheck.called /\ cfg.rate.kind = "limit")
    => IF UnlimitedHost(cfg.rate, lastCheck.host)
         THEN ~lastCheck.message /\ lastCheck.kept
         ELSE lastCheck.message <=> lastCheck.n > cfg.rate.max

\* Configuration "1 <period> example.com": http://EXAMPLE.COM has made more
\* than max + 1 calls in the period and is permitted, other.com has made
\* two calls of which one was counted, and http://example.com has called.
C2_Witness ==
  /\ cfg.rate = RateLimit(1, <<Literal(ExampleCom)>>)
  /\ lastCheck.called
  /\ lastCheck.origin = OriginExampleUpper
  /\ lastCheck.n > cfg.rate.max + 1
  /\ ~lastCheck.message
  /\ lastCheck.kept
  /\ Count(periodCalls, StripScheme(OriginExample)) >= 2
  /\ Count(periodCalls, OriginOther) >= 2
  /\ accessedHosts = Put(EmptyMap, OriginOther, 1)

\* ------------------------------------------------------------------------
\* Admission properties (SpecAdmission)
\* ------------------------------------------------------------------------
\* The last inbound request was answered by the handler itself or handed to
\* the forwarder (no handleInitialRequest hook took it).
Answered == last.kind \notin {"init", "handled"}

LastOrigin == Get(last.request.headers, "origin")

\* What the last request's path resolves to.
LastLocation == parseURL(Drop(last.request.url, 1))

\* The host name fails host-name validation: it neither ends in a top-level
\* domain nor is an IP literal.
FailsValidation(hostname) ==
  ~(TOP_LEVEL_DOMAIN_REGEX(hostname) \/ isIPv4(hostname) \/ isIPv6(hostname))

\* The path embeds a port above 65535.
HasBigPort(url) ==
  \E k \in 1..(Len(url) - 1) :
    url[k] = Co /\ url[k + 1].k = "num" /\ url[k + 1].n > MaxPort

\* C3: a request whose Origin is in originBlacklist is answered 403, whether
\* or not the origin is in originWhitelist too.  Stated for the requests
\* that get as far as the origin checks: not OPTIONS, a path that resolves
\* to a valid host, and one of the required headers present when
\* requireHeader names any.
C3_BlacklistedIs403 ==
  (/\ Answered
   /\ last.request.method # "OPTIONS"
   /\ LastLocation.kind = "url"
   /\ ~FailsValidation(LastLocation.url.hostname)
   /\ \/ cfg.requireHeader = <<>>
      \/ \E n \in 1..Len(cfg.requireHeader) :
           Truthy(last.request.headers, cfg.requireHeader[n])
   /\ Includes(cfg.originBlacklist, LastOrigin))
    => last.kind = "response" /\ last.status = 403

\* C4: a request whose path embeds a port above 65535 is answered 400
\* "Port number too large", whatever the policy settings.  Stated for the
\* requests other than OPTIONS.
C4_BigPortIs400 ==
  (/\ Answered
   /\ last.request.method # "OPTIONS"
   /\ HasBigPort(last.request.url))
    => /\ last.kind = "response"
       /\ last.status = 400
       /\ last.body = "Port number too large"

\* C5 as stated: every request whose path has no explicit scheme and
\* resolves to a host name that fails validation is answered 404 and is not
\* forwarded.
C5_InvalidHostIs404 ==
  (/\ last.kind # "init"
   /\ ~ExplicitScheme(last.request.url)
   /\ LastLocation.kind = "url"
   /\ FailsValidation(LastLocation.url.hostname))
    => last.kind = "response" /\ last.status = 404 /\ last.proxied = 0

\* C5, amended: every request other than OPTIONS that no
\* handleInitialRequest hook takes, whose path has no explicit scheme and
\* resolves to a host name that fails validation, is answered 404 and is not
\* forwarded.
C5_InvalidHostIs404UnlessOptions ==
  (/\ Answered
   /\ last.request.method # "OPTIONS"
   /\ ~ExplicitScheme(last.request.url)
   /\ LastLocation.kind = "url"
   /\ FailsValidation(LastLocation.url.hostname))
    => /\ last.kind = "response"
       /\ last.status = 404
       /\ last.message = "Invalid host"
       /\ last.proxied = 0

\* GET /favicon.ico with the required header and an allowed origin, under a
\* configuration that forwards GET /example.com/a for the same headers, is
\* answered 404.
C5_Witness ==
  /\ last.request = MkRequest("GET", UrlFavicon, HeadersXhr)
  /\ cfg.requireHeader = ServerRequireHeader
  /\ cfg.originBlacklist = <<>>
  /\ cfg.originWhitelist = <<>>
  /\ last.kind = "response"
  /\ last.status = 404
  /\ sent = <<>>

\* C6: every OPTIONS request (that no handleInitialRequest hook takes) is
\* answered 200 with the CORS headers whatever its path, port and headers
\* and whatever the lists and the rate limit; the step that handles it
\* leaves the rate-limit counters as they were and issues no outbound
\* request.
C6_OptionsIs200 ==
  [][(/\ last' # last
      /\ last'.kind \notin {"init", "handled"}
      /\ last'.request.method = "OPTIONS")
       => /\ last'.kind = "response"
          /\ last'.status = 200
          /\ Get(last'.headers, "access-control-allow-origin") = Word("*")
          /\ accessedHosts' = accessedHosts
          /\ sent' = sent]_vars

\* The Access-Control-Request-* headers of the request headers h are
\* mirrored in the response headers r.
Mirrored(h, r) ==
  /\ Truthy(h, "access-control-request-method")
       => Get(r, "access-control-allow-methods")
            = h["access-control-request-method"]
  /\ Truthy(h, "access-control-request-headers")
       => Get(r, "access-control-allow-headers")
            = h["access-control-request-headers"]

\* The response the handler wrote itself mirrors the headers of the request.
LocalMirrored ==
  last.kind = "response" => Mirrored(last.request.headers, last.headers)

\* No outbound attempt carries an Access-Control-Request-* header.
ForwardedWithout ==
  \A a \in 1..Len(sent) :
    /\ ~Truthy(sent[a].headers, "access-control-request-method")
    /\ ~Truthy(sent[a].headers, "access-control-request-headers")

\* The upstream response that onProxyResponse finalized mirrors the headers
\* its request arrived with.
FinalMirrored ==
  (lastRes.req # 0 /\ lastRes.statusCode \notin REDIRECT_STATUSES)
    => Mirrored(reqs[lastRes.req].inbound, lastRes.headers)

\* C7: for a request that arrives with Access-Control-Request-Method M
\* (Access-Control-Request-Headers H), the response the handler writes
\* itself and the finalized proxied response carry
\* Access-Control-Allow-Methods: M (Access-Control-Allow-Headers: H), and
\* the request forwarded upstream carries neither request header.
C7_RequestHeadersMirrored ==
  LocalMirrored /\ ForwardedWithout /\ FinalMirrored

\* ------------------------------------------------------------------------
\* Forwarder properties (SpecForwarder)
\* ------------------------------------------------------------------------
\* The outbound attempts made for request i.
AttemptsOf(i) == {a \in 1..Len(sent) : sent[a].req = i}

\* Request 1 is the only request the server has forwarded, and its
\* upstreams have answered with the status codes of answers so far.
LoneRequestAnswered(answers) == Len(reqs) = 1 /\ reqs[1].answers = answers

\* The Location header of the last upstream response, made absolute against
\* the target of the attempt it answers.
AbsoluteLocation ==
  Href(ResolveLocation(lastRes.upstream["location"],
                       sent[lastRes.attempt].target).url)

\* C8: when the upstreams of a request answer 302 with a Location for
\* exactly maxRedirects hops and then 200, the forwarder has made
\* maxRedirects + 1 attempts, the hop counter is maxRedirects (one per
\* followed hop), and the 200 ends the request: nothing is in flight and
\* nothing more is followed.
C8_ChainWithinLimit ==
  LoneRequestAnswered([k \in 1..cfg.maxRedirects + 1 |->
                         IF k <= cfg.maxRedirects THEN 302 ELSE 200])
    => /\ Len(sent) = cfg.maxRedirects + 1
       /\ corsStates[1].redirectCount_ = cfg.maxRedirects
       /\ lastRes.statusCode = 200
       /\ lastRes.follows = 0
       /\ inflight = {}

\* C9: when the upstreams of a request answer with maxRedirects + 1
\* redirects (302 or 303 with a Location), the last one is not followed:
\* no new attempt is made, the response keeps the upstream's status code and
\* its Location is <proxyBaseUrl>/<absolute location>.
C9_BeyondLimit ==
  (/\ Len(reqs) = 1
   /\ Len(reqs[1].answers) = cfg.maxRedirects + 1
   /\ \A k \in 1..Len(reqs[1].answers) : reqs[1].answers[k] \in {302, 303})
    => /\ lastRes.follows = 0
       /\ inflight = {}
       /\ Len(sent) = cfg.maxRedirects + 1
       /\ lastRes.statusCode = reqs[1].answers[cfg.maxRedirects + 1]
       /\ Get(lastRes.headers, "location")
            = corsStates[1].proxyBaseUrl \o <<Sl>> \o AbsoluteLocation

\* C10: whatever the upstreams answer and however the requests interleave,
\* every request has at most maxRedirects + 1 outbound attempts in total and
\* at most one of them in flight.
C10_Sequential ==
  \A i \in 1..Len(reqs) :
    /\ Cardinality(AttemptsOf(i)) <= cfg.maxRedirects + 1
    /\ Cardinality(AttemptsOf(i) \cap inflight) <= 1

\* C11: an upstream response delivered for request A is processed only
\* against A's forwarding state: the step leaves the hop counter and the
\* target of every other request as they were, every attempt it starts uses
\* A's state, and a finalized response is stamped (x-final-url) with A's own
\* target.
C11_OwnStateOnly ==
  [][lastRes'.req # 0
       => /\ \A j \in 1..Len(corsStates) :
               j # lastRes'.req => corsStates'[j] = corsStates[j]
          /\ \A a \in (Len(sent) + 1)..Len(sent') :
               sent'[a].cs = lastRes'.req
          /\ lastRes'.statusCode \notin REDIRECT_STATUSES
               => Get(lastRes'.headers, "x-final-url")
                    = Href(corsStates'[lastRes'.req].location)]_vars

\* Request i has been forwarded and none of its attempts is in flight: its
\* response or error has gone to the client.
Terminal(i) == AttemptsOf(i) # {} /\ AttemptsOf(i) \cap inflight = {}

\* C12, the part about terminal states: once a forwarded request has no
\* attempt in flight any more, no step changes its forwarding state (hop
\* counter, target), its request and response headers, or starts another
\* outbound attempt for it or with its state.
C12_TerminalIsFinal ==
  [][\A i \in 1..Len(reqs) :
       Terminal(i)
         => /\ corsStates'[i] = corsStates[i]
            /\ reqs'[i] = reqs[i]
            /\ \A a \in (Len(sent) + 1)..Len(sent') :
                 sent'[a].req # i /\ sent'[a].cs # i]_vars

\* ------------------------------------------------------------------------
\* Utilities properties (SpecUtils)
\* ------------------------------------------------------------------------
\* The last call was getProxyForUrl for a target with a host.
Resolving == lastCall.fn = "getProxyForUrl" /\ lastCall.url.hostname # <<>>

\* The call returned null without throwing.
NoForwardProxy == ~lastCall.proxy.thrown /\ lastCall.proxy.proxy = <<>>

\* The endpoint the configuration names for url: the "all" override when
\* set, else the endpoint of the target's scheme (<<>> when there is none).
Endpoint(e, url) ==
  IF e.ALL_PROXY # <<>> THEN e.ALL_PROXY
  ELSE IF url.protocol = "https" THEN e.HTTPS_PROXY
  ELSE e.HTTP_PROXY

\* The target matches a no-proxy entry host[:port], with or without a
\* scheme in front: same host name and, when the entry has a port, the same
\* port.
MatchesEntry(entry, url) ==
  LET hp == StripScheme(entry)
  IN  /\ hp # <<>>
      /\ hp[1].k = "name"
      /\ LowerLabels(hp[1].s) = url.hostname
      /\ Len(hp) >= 3 => hp[3].k = "num" /\ hp[3].n = url.port

Exempt(e, url) ==
  \E k \in 1..Len(e.NO_PROXY) : MatchesEntry(e.NO_PROXY[k], url)

\* C13: with NO_PROXY = "*" getProxyForUrl returns no forward proxy for
\* every target whatever endpoints are configured, and so it does when
\* nothing at all is configured.
C13_WildcardDisables ==
  (Resolving /\ (env.NO_PROXY = <<Word("*")>> \/ env = EnvUnset))
    => NoForwardProxy

\* C14: with NO_PROXY unset getProxyForUrl returns the endpoint configured
\* for the target's scheme, or the "all" override when that is set.
C14_NoExemption ==
  (Resolving /\ env.NO_PROXY = <<>>)
    => ~lastCall.proxy.thrown /\ lastCall.proxy.proxy = Endpoint(env, lastCall.url)

\* C15: with a NO_PROXY list other than "*" getProxyForUrl returns no
\* forward proxy exactly when the target matches at least one entry; a
\* target that matches none gets the scheme-specific or "all" endpoint.
C15_ExemptIffMatches ==
  (Resolving /\ env.NO_PROXY \notin {<<>>, <<Word("*")>>})
    => IF Exempt(env, lastCall.url)
         THEN NoForwardProxy
         ELSE /\ ~lastCall.proxy.thrown
              /\ lastCall.proxy.proxy = Endpoint(env, lastCall.url)

\* C16: getProxyForUrl never throws, whatever the no-proxy list and the
\* endpoints are.
C16_NeverThrows ==
  Resolving => ~lastCall.proxy.thrown

\* The explicit scheme of the string given to parseURL ("" for none).
SchemeOf(reqUrl) ==
  IF /\ Len(reqUrl) >= 4 /\ IsSchemeName(reqUrl[1])
     /\ reqUrl[2] = Co /\ reqUrl[3] = Sl /\ reqUrl[4] = Sl
    THEN LowerLabel(reqUrl[1].s[1])
    ELSE ""

\* The authority of a string without a scheme ends in ":443".
Port443(reqUrl) ==
  LET r == IF StartsWith(reqUrl, <<Sl, Sl>>) THEN Drop(reqUrl, 2) ELSE reqUrl
      n == RunLen(r)
  IN  n >= 2 /\ r[n - 1] = Co /\ r[n] = Num(443)

\* C17: when parseURL resolves a string, an explicit http:// or https://
\* scheme is kept whatever the port; without a scheme the result is https
\* exactly when the explicit port is 443, and http otherwise.
C17_SchemeChoice ==
  (lastCall.fn = "parseURL" /\ lastCall.parsed.kind = "url")
    => lastCall.parsed.url.protocol
         = IF SchemeOf(lastCall.reqUrl) # "" THEN SchemeOf(lastCall.reqUrl)
           ELSE IF Port443(lastCall.reqUrl) THEN "https"
           ELSE "http"

\* parseURL("example.com:443/a") returned an https URL.
C17_Witness ==
  /\ lastCall.fn = "parseURL"
  /\ lastCall.reqUrl = Drop(UrlPort443, 1)
  /\ lastCall.parsed.kind = "url"
  /\ lastCall.parsed.url = MkURL("https", ExampleCom, NoPort, <<Sl, A>>)

\* ------------------------------------------------------------------------
\* Same-origin shortcut (SpecAdmission)
\* ------------------------------------------------------------------------
\* The last request passed every check up to and including the rate limit:
\* the handler neither threw nor ignored it nor answered it with the 200 of
\* OPTIONS or one of the rejections.
PassedChecks ==
  \/ last.kind = "proxy"
  \/ last.kind = "response" /\ last.status \notin {200, 400, 403, 404, 429}

\* The target URL is the request's origin followed by "/" and more.
SameOrigin ==
  /\ LastOrigin # <<>>
  /\ LET href == Href(LastLocation.url)
         n == Len(LastOrigin)
     IN  Len(href) > n /\ SubSeq(href, 1, n + 1) = LastOrigin \o <<Sl>>

\* C18: with redirectSameOrigin enabled, a request that passed the earlier
\* checks is answered 301 with Location: <target URL>, Vary: origin and
\* Cache-Control: private and is not forwarded exactly when its Origin is
\* not empty and the target URL starts with the origin followed by "/"; in
\* every other case it is handed to the forwarder.
C18_SameOriginRedirect ==
  (cfg.redirectSameOrigin /\ PassedChecks)
    => IF SameOrigin
         THEN /\ last.kind = "response"
              /\ last.status = 301
              /\ Get(last.headers, "location") = Href(LastLocation.url)
              /\ Get(last.headers, "vary") = Word("origin")
              /\ Get(last.headers, "cache-control") = Word("private")
              /\ last.proxied = 0
         ELSE last.kind = "proxy" /\ last.proxied # 0

\* GET /example.com/a with Origin: http://example.com is answered 301 and
\* nothing has been sent upstream.
C18_Witness ==
  /\ cfg.redirectSameOrigin
  /\ last.request = MkRequest("GET", UrlPlain, HeadersExample)
  /\ last.kind = "response"
  /\ last.status = 301
  /\ Get(last.headers, "location") = Href(TargetHttp)
  /\ sent = <<>>

\* ------------------------------------------------------------------------
\* Redirect responses (SpecForwarder)
\* ------------------------------------------------------------------------
\* The Location header of an upstream response resolves, against the target
\* of the attempt it answers, to a URL that parseURL accepts.
Resolvable(upstream, base) ==
  /\ Truthy(upstream, "location")
  /\ ResolveLocation(upstream["location"], base).kind = "url"
  /\ parseURL(Href(ResolveLocation(upstream["location"], base).url)).kind
       = "url"

\* C19: a response whose status is not 301, 302 or 303 (307 and 308 among
\* them), or whose Location header is missing or does not resolve to a valid
\* URL, is not followed whatever maxRedirects is: the step that delivers it
\* changes no hop counter and starts no outbound attempt.
C19_OnlySafeRedirectsFollowed ==
  [][(/\ lastRes'.req # 0
      /\ \/ lastRes'.statusCode \notin {301, 302, 303}
         \/ ~Resolvable(lastRes'.upstream, sent[lastRes'.attempt].target))
       => /\ sent' = sent
          /\ \A j \in 1..Len(corsStates) :
               corsStates'[j].redirectCount_ = corsStates[j].redirectCount_]_vars

\* With maxRedirects = 2 a request followed one 302 and was then answered
\* 307 with a Location: the hop counter is still 1 and no third attempt was
\* made.
C19_Witness ==
  /\ cfg.maxRedirects = 2
  /\ LoneRequestAnswered(<<302, 307>>)
  /\ Truthy(lastRes.upstream, "location")
  /\ corsStates[1].redirectCount_ = 1
  /\ Len(sent) = 2
  /\ inflight = {}

\* C20: every response the forwarder finalizes (an upstream response that
\* is not followed by another attempt) carries
\* Access-Control-Allow-Origin: *, a redirect response that is not followed
\* included.
C20_FinalIsAnnotated ==
  (lastRes.req # 0 /\ lastRes.follows = 0 /\ ~crashed)
    => Get(lastRes.headers, "access-control-allow-origin") = Word("*")

\* ------------------------------------------------------------------------
\* Counter mapping of the rate limiter (SpecRateLimiter)
\* ------------------------------------------------------------------------
\* C21: in every reachable state, under any interleaving of calls of the
\* checker and timer resets, every host stored in the counter mapping has a
\* count between 1 and the configured maximum and does not match the
\* unlimited pattern; without a rate limit the mapping stays empty.
C21_CountsWithinLimit ==
  IF cfg.rate.kind = "limit"
    THEN \A host \in DOMAIN accessedHosts :
           /\ 1 <= accessedHosts[host]
           /\ accessedHosts[host] <= cfg.rate.max
           /\ ~UnlimitedHost(cfg.rate, host)
    ELSE accessedHosts = EmptyMap

\* After a timer reset, with the largest maximum: the last call was rejected
\* and its host is stored with the maximum, a second host is stored, and a
\* host that matches the unlimited pattern has called and is not stored.
C21_Witness ==
  /\ cfg.rate.kind = "limit"
  /\ cfg.rate.max = MaxRate
  /\ period >= 1
  /\ lastCheck.called
  /\ lastCheck.message
  /\ Count(accessedHosts, lastCheck.host) = MaxRate
  /\ Cardinality(DOMAIN accessedHosts) >= 2
  /\ \E host \in DOMAIN periodCalls :
       UnlimitedHost(cfg.rate, host) /\ host \notin DOMAIN accessedHosts

\* ------------------------------------------------------------------------
\* Frame of the admission checks (SpecAdmission)
\* ------------------------------------------------------------------------
\* The step handles an inbound request.
Handles == last' # last /\ last'.kind # "init"

\* The request was turned away before the rate-limit step: no response for
\* an unresolvable path, an exception, or one of the answers 400, 403, 404.
TurnedAway(l) ==
  \/ l.kind \in {"none", "threw"}
  \/ l.kind = "response" /\ l.status \in {400, 403, 404}

\* The request got past the rate-limit step: it was answered by the
\* same-origin 301 or handed to the forwarder.
Permitted(l) ==
  \/ l.kind = "proxy"
  \/ l.kind = "response" /\ l.status = 301

\* The counter mapping after one more counted request of origin.
CountedOnce(acc, origin) ==
  Put(acc, StripScheme(origin), Count(acc, StripScheme(origin)) + 1)

\* The frame of a request that was turned away, and of the 301 shortcut: no
\* outbound attempt.
FrameOfRejection ==
  /\ TurnedAway(last') => accessedHosts' = accessedHosts /\ sent' = sent
  /\ (last'.kind = "response" /\ last'.status = 301) => sent' = sent

\* C22 as stated: a request rejected before the rate-limit step leaves the
\* counter mapping as it was and sends nothing upstream; every request that
\* gets past the rate-limit step adds exactly one to the counter of its
\* origin, the same-origin 301 included.
C22_FrameOfAdmission ==
  [][Handles
       => /\ FrameOfRejection
          /\ Permitted(last')
               => accessedHosts'
                    = CountedOnce(accessedHosts,
                                  Get(last'.request.headers, "origin"))]_vars

\* C22, amended: a request rejected before the rate-limit step leaves the
\* counter mapping as it was and sends nothing upstream; a request that gets
\* past the rate-limit step adds exactly one to the counter of its origin's
\* host when a rate limit is configured and the host does not match the
\* unlimited pattern, the same-origin 301 included, and leaves the mapping
\* as it was otherwise.
C22_FrameOfAdmissionLimited ==
  [][Handles
       => /\ FrameOfRejection
          /\ Permitted(last')
               => accessedHosts'
                    = IF /\ cfg.rate.kind = "limit"
                         /\ ~UnlimitedHost(cfg.rate,
                               StripScheme(Get(last'.request.headers,
                                               "origin")))
                        THEN CountedOnce(accessedHosts,
                                         Get(last'.request.headers, "origin"))
                        ELSE accessedHosts]_vars

\* Under the rate limit "1 <period>" the request GET /example.com/a with
\* Origin: http://example.com was answered by the same-origin 301, its host
\* is stored with count 1 and nothing has been sent upstream.
C22_Witness ==
  /\ cfg.rate = StrictRate
  /\ last.request = MkRequest("GET", UrlPlain, HeadersExample)
  /\ last.kind = "response"
  /\ last.status = 301
  /\ accessedHosts = Put(EmptyMap, <<Name(ExampleCom)>>, 1)
  /\ sent = <<>>

====
